---- MODULE Spec2Model ----
(***************************************************************************)
(* Grove LED Bar (MY9221) driver, src/main.ts, namespace groveLedBar.       *)
(*                                                                         *)
(* The driver is single-threaded and synchronous: every public operation   *)
(* runs to completion, so each exported function is one action.  The pin   *)
(* writes and delays an operation performs are recorded, in order, in the  *)
(* variable out.                                                           *)
(*                                                                         *)
(* A TypeScript number is modelled as an exact fraction [n, d] (d > 0).    *)
(* All inputs used are dyadic fractions of small magnitude, on which the   *)
(* IEEE double operations of the source (x * 8, x - 8, floor, <, >=) are   *)
(* exact.  NaN and infinities are not modelled.                            *)
(***************************************************************************)
EXTENDS Integers, Sequences, FiniteSets, TLC

VARIABLES
    _inited,    \* let _inited = false
    _clk,       \* let _clk: DigitalPin
    _dat,       \* let _dat: DigitalPin
    _reverse,   \* let _reverse = false
    _led,       \* let _led: number[], slots 0..9
    out,        \* pin writes and delays of the most recent operation
    call,       \* the most recent public call: [op, arg]
    readyCalls, \* number of calls made so far of init, or of a mutator while Ready
    frames      \* number of complete frames seen on the wire so far

vars == <<_inited, _clk, _dat, _reverse, _led, out, call, readyCalls, frames>>

----------------------------------------------------------------------------
(* Bounds and input sets *)

\* Number of frame-producing calls explored
MaxCalls == 3

\* numbers as exact fractions
Frac(n, d) == [n |-> n, d |-> d]
Num(k) == [n |-> k, d |-> 1]
Less(a, b) == a.n * b.d < b.n * a.d
Floor(a) == a.n \div a.d
Times(a, k) == [n |-> a.n * k, d |-> a.d]
Minus(a, k) == [n |-> a.n - k * a.d, d |-> a.d]
IsInt(a) == a.n % a.d = 0

DigitalPin == {"P0", "P1"}
\* clock and data are wired to different pins
PinPairs == {<<c, d>> \in DigitalPin \X DigitalPin : c # d}

LevelInputs ==
    {Frac(-1, 1), Frac(0, 1), Frac(1, 16), Frac(7, 2), Frac(57, 16), Frac(79, 8),
     Frac(10, 1), Frac(11, 1)}
IndexInputs == {0, 2, 11}
BrightnessInputs == {Frac(-1, 8), Frac(1, 16), Frac(1, 2), Frac(15, 16), Frac(9, 8)}
MaskInputs == {Num(5), Num(682), Num(1023), Num(1029), Num(-1019), Frac(11, 2)}

----------------------------------------------------------------------------
(* The platform: pins.digitalWritePin and control.waitMicros, as events *)

digitalWritePin(pin, v) == <<"write", pin, v>>
waitMicros(us) == <<"wait", "-", us>>

----------------------------------------------------------------------------
(* Private helpers *)

NumLeds == 10
Slots == 0 .. (NumLeds - 1)

clamp(v, lo, hi) ==
    IF Less(v, lo) THEN lo
    ELSE IF Less(hi, v) THEN hi
    ELSE v

\* v & 0xFF, v & 0xFFFF for v >= 0
And0xFF(v) == v % 256
And0xFFFF(v) == v % 65536

\* 1 << n for 0 <= n < 31
Shl1(n) == 2 ^ n

\* x | 0 : truncation toward zero (values within the int32 range)
ToInt32(x) == IF x.n >= 0 THEN x.n \div x.d ELSE -((-x.n) \div x.d)

\* (mask & (1 << i)) !== 0 for an int32 mask in two's complement
TestBit(mask, i) == (mask \div Shl1(i)) % 2 = 1

RECURSIVE send16Loop(_, _, _, _, _)
send16Loop(clk, dat, i, word, clkState) ==
    IF i < 16
    THEN LET bit == (word \div 32768) % 2 = 1
         IN  <<digitalWritePin(dat, IF bit THEN 1 ELSE 0),
               digitalWritePin(clk, clkState)>>
             \o send16Loop(clk, dat, i + 1, And0xFFFF(word * 2),
                           IF clkState = 0 THEN 1 ELSE 0)
    ELSE <<>>

\* variant: the clock level of a word starts high
send16StartHigh(clk, dat, word) == send16Loop(clk, dat, 0, And0xFFFF(word), 1)

send16(clk, dat, word) == send16Loop(clk, dat, 0, And0xFFFF(word), 0)

\* variant: three data toggles instead of four
RECURSIVE latchTogglesThree(_, _)
latchTogglesThree(dat, i) ==
    IF i < 3
    THEN <<digitalWritePin(dat, 1), digitalWritePin(dat, 0)>> \o latchTogglesThree(dat, i + 1)
    ELSE <<>>

RECURSIVE latchToggles(_, _)
latchToggles(dat, i) ==
    IF i < 4
    THEN <<digitalWritePin(dat, 1), digitalWritePin(dat, 0)>> \o latchToggles(dat, i + 1)
    ELSE <<>>

\* variant: the final clock pulse is low, high
latchEndsHigh(clk, dat) ==
    <<digitalWritePin(dat, 0),
      digitalWritePin(clk, 1), digitalWritePin(clk, 0),
      digitalWritePin(clk, 1), digitalWritePin(clk, 0),
      waitMicros(240)>>
    \o latchToggles(dat, 0)
    \o <<waitMicros(1),
         digitalWritePin(clk, 0), digitalWritePin(clk, 1)>>

latch(clk, dat) ==
    <<digitalWritePin(dat, 0),
      digitalWritePin(clk, 1), digitalWritePin(clk, 0),
      digitalWritePin(clk, 1), digitalWritePin(clk, 0),
      waitMicros(240)>>
    \o latchToggles(dat, 0)
    \o <<waitMicros(1),
         digitalWritePin(clk, 1), digitalWritePin(clk, 0)>>

RECURSIVE flushUp(_, _, _, _)
flushUp(clk, dat, led, i) ==
    IF i < NumLeds
    THEN send16(clk, dat, And0xFF(led[i])) \o flushUp(clk, dat, led, i + 1)
    ELSE <<>>

\* variant: the descending loop stops before slot 0
RECURSIVE flushDownShort(_, _, _, _)
flushDownShort(clk, dat, led, i) ==
    IF i > 0
    THEN send16(clk, dat, And0xFF(led[i])) \o flushDownShort(clk, dat, led, i - 1)
    ELSE <<>>

RECURSIVE flushDown(_, _, _, _)
flushDown(clk, dat, led, i) ==
    IF i >= 0
    THEN send16(clk, dat, And0xFF(led[i])) \o flushDown(clk, dat, led, i - 1)
    ELSE <<>>

\* the driver state as one value
State(inited, clk, dat, reverse, led) ==
    [inited |-> inited, clk |-> clk, dat |-> dat, reverse |-> reverse, led |-> led]

\* variant: no initialization guard
flushUnguarded(s) ==
    send16(s.clk, s.dat, 0)
    \o (IF s.reverse THEN flushDown(s.clk, s.dat, s.led, NumLeds - 1)
                     ELSE flushUp(s.clk, s.dat, s.led, 0))
    \o send16(s.clk, s.dat, 0)
    \o send16(s.clk, s.dat, 0)
    \o latch(s.clk, s.dat)

flush(s) ==
    IF ~s.inited THEN <<>>
    ELSE send16(s.clk, s.dat, 0)
         \o (IF s.reverse THEN flushDown(s.clk, s.dat, s.led, NumLeds - 1)
                          ELSE flushUp(s.clk, s.dat, s.led, 0))
         \o send16(s.clk, s.dat, 0)
         \o send16(s.clk, s.dat, 0)
         \o latch(s.clk, s.dat)

----------------------------------------------------------------------------
(* Public operations: each maps the state before the call to the state     *)
(* after it (s) and the pin activity of the call (io).                     *)

Result(s, io) == [s |-> s, io |-> io]

\* variant: the brightness slots are not zeroed
initKeepsLeds(s, clockPin, dataPin, greenToRed) ==
    LET s1 == State(TRUE, clockPin, dataPin, greenToRed, s.led)
        io1 == <<digitalWritePin(s1.clk, 0), digitalWritePin(s1.dat, 0)>>
    IN  Result(s1, io1 \o flush(s1))

init(s, clockPin, dataPin, greenToRed) ==
    LET s1 == State(TRUE, clockPin, dataPin, greenToRed, s.led)
        io1 == <<digitalWritePin(s1.clk, 0), digitalWritePin(s1.dat, 0)>>
        s2 == [s1 EXCEPT !.led = [i \in Slots |-> 0]]
    IN  Result(s2, io1 \o flush(s2))

\* variant: re-transmits only when the flag changes
setGreenToRedLazy(s, greenToRed) ==
    LET s1 == [s EXCEPT !.reverse = greenToRed]
    IN  Result(s1, IF s.reverse = greenToRed THEN <<>> ELSE flush(s1))

\* variant: transmits before storing the new flag
setGreenToRedFlushFirst(s, greenToRed) ==
    LET s1 == [s EXCEPT !.reverse = greenToRed]
    IN  Result(s1, flush(s))

setGreenToRed(s, greenToRed) ==
    LET s1 == [s EXCEPT !.reverse = greenToRed]
    IN  Result(s1, flush(s1))

\* variant: the pattern is 1 << n, without the - 1
RECURSIVE setLevelLoopSingleBit(_, _, _)
setLevelLoopSingleBit(led, i, x) ==
    IF i < NumLeds
    THEN LET v == IF ~Less(x, Num(8)) THEN 255
                  ELSE IF Less(Num(0), x)
                       THEN Shl1(clamp(Num(Floor(x)), Num(0), Num(8)).n)
                       ELSE 0
         IN  setLevelLoopSingleBit([led EXCEPT ![i] = And0xFF(v)], i + 1, Minus(x, 8))
    ELSE led

\* variant: the budget is rounded to nearest instead of floored
RECURSIVE setLevelLoopRound(_, _, _)
setLevelLoopRound(led, i, x) ==
    IF i < NumLeds
    THEN LET v == IF ~Less(x, Num(8)) THEN 255
                  ELSE IF Less(Num(0), x)
                       THEN Shl1(clamp(Num(Floor(Frac(2 * x.n + x.d, 2 * x.d))),
                                       Num(0), Num(8)).n) - 1
                       ELSE 0
         IN  setLevelLoopRound([led EXCEPT ![i] = And0xFF(v)], i + 1, Minus(x, 8))
    ELSE led

RECURSIVE setLevelLoop(_, _, _)
setLevelLoop(led, i, x) ==
    IF i < NumLeds
    THEN LET v == IF ~Less(x, Num(8)) THEN 255
                  ELSE IF Less(Num(0), x)
                       THEN Shl1(clamp(Num(Floor(x)), Num(0), Num(8)).n) - 1
                       ELSE 0
         IN  setLevelLoop([led EXCEPT ![i] = And0xFF(v)], i + 1, Minus(x, 8))
    ELSE led

setLevel(s, level) ==
    IF ~s.inited THEN Result(s, <<>>)
    ELSE LET lv == clamp(level, Num(0), Num(10))
             x == Times(lv, 8)
             s1 == [s EXCEPT !.led = setLevelLoop(s.led, 0, x)]
         IN  Result(s1, flush(s1))

\* variant: transmits before writing the slot
setLedFlushFirst(s, index, brightness) ==
    IF ~s.inited THEN Result(s, <<>>)
    ELSE LET ix == clamp(index, Num(1), Num(10))
             br == clamp(brightness, Num(0), Num(1))
             steps == clamp(Num(Floor(Times(br, 8))), Num(0), Num(8)).n
             v == IF steps = 0 THEN 0 ELSE Shl1(steps) - 1
             s1 == [s EXCEPT !.led[ix.n - 1] = And0xFF(v)]
         IN  Result(s1, flush(s))

\* variant: the pattern is 1 << steps, without the - 1
setLedSingleBit(s, index, brightness) ==
    IF ~s.inited THEN Result(s, <<>>)
    ELSE LET ix == clamp(index, Num(1), Num(10))
             br == clamp(brightness, Num(0), Num(1))
             steps == clamp(Num(Floor(Times(br, 8))), Num(0), Num(8)).n
             v == IF steps = 0 THEN 0 ELSE Shl1(steps)
             s1 == [s EXCEPT !.led[ix.n - 1] = And0xFF(v)]
         IN  Result(s1, flush(s1))

setLed(s, index, brightness) ==
    IF ~s.inited THEN Result(s, <<>>)
    ELSE LET ix == clamp(index, Num(1), Num(10))
             br == clamp(brightness, Num(0), Num(1))
             steps == clamp(Num(Floor(Times(br, 8))), Num(0), Num(8)).n
             v == IF steps = 0 THEN 0 ELSE Shl1(steps) - 1
             s1 == [s EXCEPT !.led[ix.n - 1] = And0xFF(v)]
         IN  Result(s1, flush(s1))

\* variant: the mask is clamped to 0..1023
setBitsClamped(s, mask) ==
    IF ~s.inited THEN Result(s, <<>>)
    ELSE LET m == ToInt32(clamp(mask, Num(0), Num(1023)))
             s1 == [s EXCEPT !.led = [i \in Slots |-> IF TestBit(m, i) THEN 255 ELSE 0]]
         IN  Result(s1, flush(s1))

\* variant: bit i + 1 drives slot i
setBitsShifted(s, mask) ==
    IF ~s.inited THEN Result(s, <<>>)
    ELSE LET m == ToInt32(mask)
             s1 == [s EXCEPT !.led = [i \in Slots |-> IF TestBit(m, i + 1) THEN 255 ELSE 0]]
         IN  Result(s1, flush(s1))

setBits(s, mask) ==
    IF ~s.inited THEN Result(s, <<>>)
    ELSE LET m == ToInt32(mask)
             s1 == [s EXCEPT !.led = [i \in Slots |-> IF TestBit(m, i) THEN 255 ELSE 0]]
         IN  Result(s1, flush(s1))

\* variant: clear also drops the initialized flag
clearDeinit(s) ==
    IF ~s.inited THEN Result(s, <<>>)
    ELSE LET s1 == [s EXCEPT !.led = [i \in Slots |-> 0]]
         IN  Result([s1 EXCEPT !.inited = FALSE], flush(s1))

\* variant: the last slot is not cleared
clearShort(s) ==
    IF ~s.inited THEN Result(s, <<>>)
    ELSE LET s1 == [s EXCEPT !.led = [i \in Slots |-> IF i < NumLeds - 1 THEN 0 ELSE s.led[i]]]
         IN  Result(s1, flush(s1))

clear(s) ==
    IF ~s.inited THEN Result(s, <<>>)
    ELSE LET s1 == [s EXCEPT !.led = [i \in Slots |-> 0]]
         IN  Result(s1, flush(s1))

----------------------------------------------------------------------------
(* An observer on the two wires *)

WordLen == 32     \* events per 16-bit word: 16 data writes, 16 clock writes
LatchLen == 17    \* events per latch sequence

\* words per frame as flush sends them: command, one per slot, two of padding
WordsPerFrame == 1 + NumLeds + 2

\* events in a frame of nw words followed by one latch sequence
FrameLen(nw) == nw * WordLen + LatchLen

\* the k-th word-sized chunk of a trace that starts at offset off
Chunk(tr, off, k) == SubSeq(tr, off + (k - 1) * WordLen + 1, off + k * WordLen)

\* a chunk is a word on pins clk/dat: data write then clock write, 16 times
IsWord(ch, clk, dat) ==
    /\ Len(ch) = WordLen
    /\ \A j \in 1 .. 16 :
         /\ ch[2 * j - 1][1] = "write" /\ ch[2 * j - 1][2] = dat
         /\ ch[2 * j][1] = "write" /\ ch[2 * j][2] = clk

RECURSIVE BitsValue(_, _)
BitsValue(ch, j) ==
    IF j = 0 THEN 0 ELSE 2 * BitsValue(ch, j - 1) + ch[2 * j - 1][3]

\* the value of a word chunk, first data bit most significant
WordValue(ch) == BitsValue(ch, 16)

\* the latch sequence as the chip's protocol requires it
LatchSequence(clk, dat) ==
    <<  <<"write", dat, 0>>,
        <<"write", clk, 1>>, <<"write", clk, 0>>, <<"write", clk, 1>>, <<"write", clk, 0>>,
        <<"wait", "-", 240>>,
        <<"write", dat, 1>>, <<"write", dat, 0>>, <<"write", dat, 1>>, <<"write", dat, 0>>,
        <<"write", dat, 1>>, <<"write", dat, 0>>, <<"write", dat, 1>>, <<"write", dat, 0>>,
        <<"wait", "-", 1>>,
        <<"write", clk, 1>>, <<"write", clk, 0>>  >>

\* tr, from offset off to its end, is exactly one frame: nw words, one latch
IsFrameAt(tr, off, nw, clk, dat) ==
    /\ off >= 0
    /\ Len(tr) = off + FrameLen(nw)
    /\ \A k \in 1 .. nw : IsWord(Chunk(tr, off, k), clk, dat)
    /\ SubSeq(tr, off + nw * WordLen + 1, Len(tr)) = LatchSequence(clk, dat)

\* the words of the nw-word frame that ends tr
FrameWords(tr, nw) ==
    LET off == Len(tr) - FrameLen(nw)
    IN  [k \in 1 .. nw |-> WordValue(Chunk(tr, off, k))]

\* number of complete frames in the pin activity of one call: the latch
\* sequences that follow at least one word
NumFrames(tr, clk, dat) ==
    Cardinality({j \in (WordLen + 1) .. (Len(tr) - LatchLen + 1) :
                    /\ tr[j + 5][1] = "wait"
                    /\ SubSeq(tr, j, j + LatchLen - 1) = LatchSequence(clk, dat)
                    /\ IsWord(SubSeq(tr, j - WordLen, j - 1), clk, dat)})

----------------------------------------------------------------------------
(* The state machine *)

Cur == State(_inited, _clk, _dat, _reverse, _led)

Init ==
    /\ _inited = FALSE
    /\ _clk = "undefined"
    /\ _dat = "undefined"
    /\ _reverse = FALSE
    /\ _led = [i \in Slots |-> 0]
    /\ out = <<>>
    /\ call = [op |-> "none", arg |-> <<>>]
    /\ readyCalls = 0
    /\ frames = 0

\* a call of operation op with arguments arg returned r
Apply(op, arg, r, counted) ==
    /\ _inited' = r.s.inited
    /\ _clk' = r.s.clk
    /\ _dat' = r.s.dat
    /\ _reverse' = r.s.reverse
    /\ _led' = r.s.led
    /\ out' = r.io
    /\ call' = [op |-> op, arg |-> arg]
    /\ readyCalls' = IF counted THEN readyCalls + 1 ELSE readyCalls
    /\ frames' = frames + NumFrames(r.io, r.s.clk, r.s.dat)

CallInit ==
    /\ readyCalls < MaxCalls
    /\ \E p \in PinPairs, g \in BOOLEAN :
         \E r \in {init(Cur, p[1], p[2], g)} :
            Apply("init", <<p[1], p[2], g>>, r, TRUE)

CallSetGreenToRed ==
    /\ readyCalls < MaxCalls
    /\ \E g \in BOOLEAN :
         \E r \in {setGreenToRed(Cur, g)} :
            Apply("setGreenToRed", <<g>>, r, _inited)

CallSetLevel ==
    /\ readyCalls < MaxCalls
    /\ \E level \in LevelInputs :
         \E r \in {setLevel(Cur, level)} :
            Apply("setLevel", <<level>>, r, _inited)

CallSetLed ==
    /\ readyCalls < MaxCalls
    /\ \E index \in IndexInputs, brightness \in BrightnessInputs :
         \E r \in {setLed(Cur, Num(index), brightness)} :
            Apply("setLed", <<index, brightness>>, r, _inited)

CallSetBits ==
    /\ readyCalls < MaxCalls
    /\ \E mask \in MaskInputs :
         \E r \in {setBits(Cur, mask)} :
            Apply("setBits", <<mask>>, r, _inited)

CallClear ==
    /\ readyCalls < MaxCalls
    /\ \E r \in {clear(Cur)} :
         Apply("clear", <<>>, r, _inited)

Next ==
    \/ CallInit
    \/ CallSetGreenToRed
    \/ CallSetLevel
    \/ CallSetLed
    \/ CallSetBits
    \/ CallClear

Spec == Init /\ [][Next]_vars

TypeOK ==
    /\ _inited \in BOOLEAN
    /\ _reverse \in BOOLEAN
    /\ DOMAIN _led = Slots
    /\ readyCalls \in 0 .. MaxCalls

----------------------------------------------------------------------------
(* Vocabulary of the properties *)

Mutators == {"setLevel", "setLed", "setBits", "clear", "setGreenToRed"}

AllOff == [i \in Slots |-> 0]
AllOn == [i \in Slots |-> 255]

\* the frame of WordsPerFrame words that ends out starts at this offset
FrameOffset == Len(out) - FrameLen(WordsPerFrame)

\* the words of the frame that ends a trace
Words(tr) == FrameWords(tr, WordsPerFrame)

\* the ten data words of a frame, in wire order
DataWords(words) == [k \in 1 .. NumLeds |-> words[k + 1]]

\* number of delay calls in a trace
NumWaits(tr) == Cardinality({j \in 1 .. Len(tr) : tr[j][1] = "wait"})

\* nearest value of lo..hi to the fraction v
Nearest(v, lo, hi) ==
    IF v.n < lo * v.d THEN Num(lo) ELSE IF v.n > hi * v.d THEN Num(hi) ELSE v

\* slot i after setLevel(level): budget x_i = 8 * clamp(level, 0, 10) - 8 * i
LevelSlot(level, i) ==
    LET c == Nearest(level, 0, 10)
        xn == 8 * c.n - 8 * i * c.d      \* x_i = xn / c.d
    IN  IF xn >= 8 * c.d THEN 255
        ELSE IF xn > 0 THEN (2 ^ (xn \div c.d)) - 1
        ELSE 0

\* the pattern of setLed(_, brightness)
LedSteps(brightness) ==
    LET b == Nearest(brightness, 0, 1) IN (8 * b.n) \div b.d

\* the number whose binary digits are the lit slots, slot 0 least significant
RECURSIVE LitMask(_, _)
LitMask(led, i) ==
    IF i = NumLeds THEN 0
    ELSE (IF led[i] = 255 THEN 2 ^ i ELSE 0) + LitMask(led, i + 1)

----------------------------------------------------------------------------
(* Properties *)

\* C1: before the first init, a call of setLevel, setLed, setBits, clear or
\* setGreenToRed leaves all 10 brightness slots unchanged and performs no pin
\* write and no delay call.
C1_NotReadyNoOp ==
    [][(~_inited /\ call'.op \in Mutators) => (_led' = _led /\ out' = <<>>)]_vars

\* a mutator has been called in the Uninitialized state
C1_Witness ==
    /\ ~_inited
    /\ call.op = "setGreenToRed"
    /\ call.arg[1] = TRUE
    /\ out = <<>>

\* C2: in the Ready state setLevel(level) sets slot i from the budget
\* x_i = 8 * clamp(level, 0, 10) - 8 * i: 0xFF if x_i >= 8, (1 << floor(x_i)) - 1
\* if 0 < x_i < 8, 0x00 if x_i <= 0; levels below 0 act as 0, above 10 as 10;
\* setLevel(0) is all 0x00, setLevel(10) all 0xFF, setLevel(3.5) is
\* 0xFF, 0xFF, 0xFF, 0x0F, 0x00 ...
C2_SetLevelSlots ==
    (_inited /\ call.op = "setLevel") =>
        LET level == call.arg[1] IN
        /\ \A i \in Slots : _led[i] = LevelSlot(level, i)
        /\ (level.n <= 0) => _led = AllOff
        /\ (level.n >= 10 * level.d) => _led = AllOn
        /\ (level = Frac(7, 2)) =>
              _led = [i \in Slots |-> IF i < 3 THEN 255 ELSE IF i = 3 THEN 15 ELSE 0]

\* setLevel(57/16) has acted: three full slots, then a budget of 4.5
C2_Witness ==
    /\ _inited
    /\ call.op = "setLevel"
    /\ call.arg[1] = Frac(57, 16)
    /\ _led[2] = 255 /\ _led[3] = 15 /\ _led[4] = 0

\* C3: in the Ready state setLed(index, brightness) with integer index writes
\* exactly slot clamp(index, 1, 10) - 1 with (1 << steps) - 1,
\* steps = floor(clamp(brightness, 0, 1) * 8), 0x00 at steps = 0 and 0xFF at
\* steps = 8, and leaves the other 9 slots and the direction flag unchanged.
C3_SetLedOneSlot ==
    [][(_inited /\ call'.op = "setLed") =>
        LET index == call'.arg[1]
            slot == (IF index < 1 THEN 1 ELSE IF index > 10 THEN 10 ELSE index) - 1
            steps == LedSteps(call'.arg[2])
        IN  /\ steps \in 0 .. 8
            /\ _led'[slot] = (2 ^ steps) - 1
            /\ (steps = 0) => _led'[slot] = 0
            /\ (steps = 8) => _led'[slot] = 255
            /\ \A i \in Slots \ {slot} : _led'[i] = _led[i]
            /\ _reverse' = _reverse
            /\ _inited']_vars

\* setLed(2, 1/2) has acted on a bar whose other slots were lit
C3_Witness ==
    /\ _inited
    /\ call.op = "setLed"
    /\ call.arg = <<2, Frac(1, 2)>>
    /\ _led[1] = 15
    /\ _led[0] = 255 /\ _led[9] = 255

\* C4: in the Ready state, after setBits(mask) with an integer mask every
\* slot i is 0xFF if bit i of mask is set and 0x00 otherwise, whatever the
\* slots held before; setBits(5) lights exactly slots 0 and 2.
C4_SetBitsSlots ==
    (_inited /\ call.op = "setBits" /\ IsInt(call.arg[1])) =>
        LET mask == call.arg[1].n IN
        /\ \A i \in Slots : _led[i] \in {0, 255}
        /\ LitMask(_led, 0) = mask % (2 ^ NumLeds)
        /\ (mask = 5) => _led = [i \in Slots |-> IF i \in {0, 2} THEN 255 ELSE 0]

\* setBits(0b1010101010) has acted
C4_Witness ==
    /\ _inited
    /\ call.op = "setBits"
    /\ call.arg[1] = Num(682)
    /\ _led[1] = 255 /\ _led[0] = 0 /\ _led[9] = 255

\* C5 as stated: every flush in the Ready state transmits exactly 12 words
\* (command, the 10 slots, two of padding) and the latch sequence follows the
\* 12th word immediately.
C5_AsStated ==
    _inited =>
        /\ (Len(out) - FrameLen(12)) \in {0, 2}
        /\ IsFrameAt(out, Len(out) - FrameLen(12), 12, _clk, _dat)

\* C5: every flush in the Ready state transmits exactly 13 words: 0x0000,
\* the 10 slots (low 8 bits) in order 0..9 when the direction is normal and
\* 9..0 when reversed, then two 0x0000; the data words under the other
\* direction would be the exact reverse, first and last two words the same;
\* the latch sequence follows the 13th word immediately.
C5_FrameLayout ==
    _inited =>
        /\ FrameOffset \in {0, 2}
        /\ IsFrameAt(out, FrameOffset, 13, _clk, _dat)
        /\ IsFrameAt(flush([Cur EXCEPT !.reverse = ~_reverse]), 0, 13, _clk, _dat)
        /\ LET words == FrameWords(out, 13)
               other == FrameWords(flush([Cur EXCEPT !.reverse = ~_reverse]), 13)
           IN  /\ words[1] = 0 /\ words[12] = 0 /\ words[13] = 0
               /\ \A i \in Slots :
                     words[IF _reverse THEN NumLeds + 1 - i ELSE i + 2] = _led[i] % 256
               /\ other[1] = words[1] /\ other[12] = words[12] /\ other[13] = words[13]
               /\ \A k \in 1 .. NumLeds :
                     DataWords(other)[k] = DataWords(words)[NumLeds + 1 - k]

\* a frame has been sent in reversed direction for an asymmetric bar
C5_Witness ==
    /\ _inited
    /\ _reverse
    /\ _led[0] = 255 /\ _led[9] = 0
    /\ Len(out) = FrameLen(13)
    /\ Words(out)[2] = 0 /\ Words(out)[11] = 255

\* C6: every latch emits exactly DATA=0; CLOCK=1,0,1,0; wait 240 us;
\* (DATA=1, DATA=0) four times; wait 1 us; CLOCK=1, CLOCK=0, with nothing
\* interleaved.
C6_LatchSequence ==
    _inited =>
        /\ Len(out) >= LatchLen
        /\ SubSeq(out, Len(out) - LatchLen + 1, Len(out)) =
             <<  <<"write", _dat, 0>>,
                 <<"write", _clk, 1>>, <<"write", _clk, 0>>,
                 <<"write", _clk, 1>>, <<"write", _clk, 0>>,
                 <<"wait", "-", 240>>,
                 <<"write", _dat, 1>>, <<"write", _dat, 0>>,
                 <<"write", _dat, 1>>, <<"write", _dat, 0>>,
                 <<"write", _dat, 1>>, <<"write", _dat, 0>>,
                 <<"write", _dat, 1>>, <<"write", _dat, 0>>,
                 <<"wait", "-", 1>>,
                 <<"write", _clk, 1>>, <<"write", _clk, 0>>  >>
        /\ NumWaits(out) = 2

\* a latch has been executed at the end of a setter's frame
C6_Witness ==
    /\ _inited
    /\ call.op = "setBits"
    /\ Len(out) > LatchLen
    /\ out[Len(out) - 2] = <<"wait", "-", 1>>

\* C7 as stated: init ends Ready with the pins bound, the direction flag
\* set and all slots 0x00, writes CLOCK=0, DATA=0 and then exactly one frame
\* whose 12 words are all 0x0000.
C7_AsStated ==
    (call.op = "init") =>
        /\ _inited
        /\ _clk = call.arg[1] /\ _dat = call.arg[2] /\ _reverse = call.arg[3]
        /\ _led = AllOff
        /\ out[1] = <<"write", _clk, 0>> /\ out[2] = <<"write", _dat, 0>>
        /\ IsFrameAt(out, 2, 12, _clk, _dat)
        /\ \A k \in 1 .. 12 : FrameWords(out, 12)[k] = 0

\* C7: init(clockPin, dataPin, direction), in any state, ends Ready with the
\* pins bound to the arguments, the direction flag equal to the argument and
\* all slots 0x00; it writes CLOCK=0, DATA=0 and then exactly one frame of
\* 13 words 0x0000; a second init with the same arguments gives the same
\* state and the same pin trace.
C7_InitResets ==
    (call.op = "init") =>
        /\ _inited
        /\ _clk = call.arg[1] /\ _dat = call.arg[2] /\ _reverse = call.arg[3]
        /\ _led = AllOff
        /\ Len(out) = 2 + FrameLen(13)
        /\ out[1] = <<"write", _clk, 0>> /\ out[2] = <<"write", _dat, 0>>
        /\ IsFrameAt(out, 2, 13, _clk, _dat)
        /\ \A k \in 1 .. 13 : FrameWords(out, 13)[k] = 0
        /\ NumFrames(out, _clk, _dat) = 1
        /\ LET again == init(Cur, call.arg[1], call.arg[2], call.arg[3])
           IN  again.s = Cur /\ again.io = out

\* init has been called again on a Ready driver, with the pins swapped
C7_Witness ==
    /\ call.op = "init"
    /\ readyCalls = 3
    /\ call.arg = <<"P1", "P0", TRUE>>
    /\ _clk = "P1"

\* C8 as stated: in the Ready state every call of a mutator transmits exactly
\* one complete frame of 12 words followed by exactly one latch sequence.
C8_AsStated ==
    /\ frames = readyCalls
    /\ (_inited /\ call.op \in Mutators) =>
          /\ Len(out) = FrameLen(12)
          /\ IsFrameAt(out, 0, 12, _clk, _dat)

\* C8: in the Ready state every call of setLevel, setLed, setBits, clear or
\* setGreenToRed transmits exactly one complete frame (13 words, then one
\* latch); n frame-producing calls have put n frames on the wire.
C8_OneFramePerCall ==
    /\ frames = readyCalls
    /\ (_inited /\ call.op \in Mutators) =>
          /\ Len(out) = FrameLen(13)
          /\ IsFrameAt(out, 0, 13, _clk, _dat)
          /\ NumWaits(out) = 2

\* three calls in the Ready state, the last one a setGreenToRed
C8_Witness ==
    /\ _inited
    /\ call.op = "setGreenToRed"
    /\ readyCalls = 3
    /\ frames = 3

\* C9: in the Ready state setGreenToRed(d) sets the direction flag to d,
\* leaves all slots unchanged and transmits one frame carrying the slots in
\* the new order; setGreenToRed(not d) then setGreenToRed(d) transmits the
\* same frame contents again.
C9_SetDirection ==
    [][(_inited /\ call'.op = "setGreenToRed") =>
        LET d == call'.arg[1]
            words == Words(out')
            flip == setGreenToRed(Cur', ~d)
            back == setGreenToRed(flip.s, d)
        IN  /\ _reverse' = d
            /\ _led' = _led
            /\ NumFrames(out', _clk, _dat) = 1
            /\ IsFrameAt(out', 0, WordsPerFrame, _clk, _dat)
            /\ \A i \in Slots :
                  words[IF d THEN NumLeds + 1 - i ELSE i + 2] = _led[i] % 256
            /\ flip.s.reverse = ~d /\ flip.s.led = _led
            /\ back.s = Cur'
            /\ Words(back.io) = words]_vars

\* the direction has been reversed on an asymmetric bar
C9_Witness ==
    /\ _inited
    /\ call.op = "setGreenToRed"
    /\ call.arg[1] = TRUE
    /\ _reverse
    /\ _led[0] = 255 /\ _led[9] = 0
    /\ Words(out)[11] = 255

\* C10 as stated: in the Ready state clear() sets all slots to 0x00, leaves
\* the direction flag unchanged and transmits one frame whose 12 words are
\* all 0x0000.
C10_AsStated ==
    [][(_inited /\ call'.op = "clear") =>
        /\ _led' = AllOff
        /\ _reverse' = _reverse
        /\ IsFrameAt(out', 0, 12, _clk', _dat')
        /\ \A k \in 1 .. 12 : FrameWords(out', 12)[k] = 0]_vars

\* C10: in the Ready state clear() sets all slots to 0x00 whatever they held,
\* leaves the direction flag unchanged and transmits one frame whose 13 words
\* are all 0x0000.
C10_Clear ==
    [][(_inited /\ call'.op = "clear") =>
        /\ _led' = AllOff
        /\ _reverse' = _reverse
        /\ IsFrameAt(out', 0, 13, _clk', _dat')
        /\ \A k \in 1 .. 13 : FrameWords(out', 13)[k] = 0]_vars

\* clear has acted in reversed direction
C10_Witness ==
    /\ _inited
    /\ call.op = "clear"
    /\ _reverse
    /\ readyCalls = 3
    /\ _led = AllOff
\* C11: the driver starts Uninitialized, becomes Ready only by init, and once
\* Ready stays Ready after every public operation.
C11_TwoStates ==
    /\ [](_inited \in BOOLEAN /\ (call.op = "none" => ~_inited))
    /\ [][/\ _inited => _inited'
          /\ (~_inited /\ _inited') => call'.op = "init"
          /\ (call'.op = "init") => _inited']_vars

\* the driver is still Ready after init and two further operations
C11_Witness ==
    /\ _inited
    /\ readyCalls = 3
    /\ call.op = "clear"
    /\ Len(out) = FrameLen(WordsPerFrame)

\* the values (1 << n) - 1, n = 0..8
Patterns == {0, 1, 3, 7, 15, 31, 63, 127, 255}

\* C12: in every reachable state each of the 10 brightness slots lies in
\* [0, 255] and is one of 0x00, 0x01, 0x03, 0x07, 0x0F, 0x1F, 0x3F, 0x7F, 0xFF,
\* and the brightness array has exactly 10 slots.
C12_SlotPatterns ==
    /\ DOMAIN _led = 0 .. 9
    /\ Cardinality(DOMAIN _led) = 10
    /\ \A i \in DOMAIN _led : _led[i] \in 0 .. 255 /\ _led[i] \in Patterns

\* graded patterns from setLevel and from setLed stand side by side
C12_Witness ==
    /\ _inited
    /\ call.op = "setLed"
    /\ _led[0] = 127
    /\ _led[3] = 15
    /\ _led[2] = 255

\* C13: every operation other than init, invoked in the Uninitialized state,
\* leaves the pin bindings, the direction flag, the initialized flag and the
\* brightness array unchanged (setGreenToRed included).
C13_NotReadyWholeState ==
    [][(~_inited /\ call'.op \in Mutators) =>
        /\ _clk' = _clk /\ _dat' = _dat
        /\ _reverse' = _reverse
        /\ _inited' = _inited
        /\ _led' = _led]_vars
----------------------------------------------------------------------------
(* The levels of the lines, as the writes of a trace leave them *)

\* the last level written to pin among the first pos events of tr, or dflt
RECURSIVE LastLevel(_, _, _, _)
LastLevel(tr, pos, pin, dflt) ==
    IF pos <= 0 THEN dflt
    ELSE IF tr[pos][1] = "write" /\ tr[pos][2] = pin THEN tr[pos][3]
    ELSE LastLevel(tr, pos - 1, pin, dflt)

\* the level of pin just before event j of tr, prev being the trace of the
\* operation before; -1 when the pin has not been written yet
LevelBefore(prev, tr, j, pin) ==
    LastLevel(tr, j - 1, pin, LastLevel(prev, Len(prev), pin, -1))

\* event j of tr changes the level of pin
IsTransition(prev, tr, j, pin) ==
    /\ tr[j][1] = "write" /\ tr[j][2] = pin
    /\ LevelBefore(prev, tr, j, pin) \in {0, 1}
    /\ tr[j][3] # LevelBefore(prev, tr, j, pin)

\* event j of tr takes pin from 0 to 1
IsRising(prev, tr, j, pin) ==
    /\ tr[j] = <<"write", pin, 1>>
    /\ LevelBefore(prev, tr, j, pin) = 0

\* number of events among positions from .. to of tr that change pin's level
NumTransitions(prev, tr, from, to, pin) ==
    Cardinality({j \in from .. to : IsTransition(prev, tr, j, pin)})

\* number of events among positions from .. to of tr that raise pin
NumRising(prev, tr, from, to, pin) ==
    Cardinality({j \in from .. to : IsRising(prev, tr, j, pin)})

\* the words a frame must carry for the state s
ExpectedWords(s) ==
    [k \in 1 .. WordsPerFrame |->
        IF k = 1 \/ k > NumLeds + 1 THEN 0
        ELSE s.led[IF s.reverse THEN NumLeds + 1 - k ELSE k - 2] % 256]

\* bit b (1 = first sent, most significant) of a 16-bit word
BitOf(word, b) == (word \div (2 ^ (16 - b))) % 2

\* C14: every send16(word), the first word of a frame included, emits exactly
\* 16 data-pin writes and exactly 16 changes of the CLOCK line's level, each
\* data write before its clock write, the data values being bits 15 down to 0
\* of the word.
C14_SixteenTransitions ==
    [][_inited' =>
        LET off == Len(out') - FrameLen(WordsPerFrame) IN
        /\ IsFrameAt(out', off, WordsPerFrame, _clk', _dat')
        /\ \A k \in 1 .. WordsPerFrame :
              LET base == off + (k - 1) * WordLen IN
              /\ \A b \in 1 .. 16 :
                    out'[base + 2 * b - 1] =
                        <<"write", _dat', BitOf(ExpectedWords(Cur')[k], b)>>
              /\ NumTransitions(out, out', base + 1, base + WordLen, _clk') = 16]_vars

\* C15 as stated: in every send16 each of the 16 data bits is followed by a
\* rising edge of CLOCK before the next data bit, 16 rising edges per word.
C15_AsStated ==
    _inited =>
        /\ IsFrameAt(out, FrameOffset, WordsPerFrame, _clk, _dat)
        /\ \A k \in 1 .. WordsPerFrame :
              LET base == FrameOffset + (k - 1) * WordLen IN
              /\ \A b \in 1 .. 16 : IsRising(<<>>, out, base + 2 * b, _clk)
              /\ NumRising(<<>>, out, base + 1, base + WordLen, _clk) = 16

\* C15: in every send16 each of the 16 data bits is followed by one write of
\* CLOCK before the next data bit, the written levels alternating 0, 1, 0,
\* 1, ...; CLOCK rises after every second data bit only, 8 rising edges per
\* word.
C15_AlternatingClock ==
    _inited =>
        /\ IsFrameAt(out, FrameOffset, WordsPerFrame, _clk, _dat)
        /\ \A k \in 1 .. WordsPerFrame :
              LET base == FrameOffset + (k - 1) * WordLen IN
              /\ \A b \in 1 .. 16 :
                    /\ out[base + 2 * b - 1][2] = _dat
                    /\ out[base + 2 * b] = <<"write", _clk, (b + 1) % 2>>
                    /\ IsRising(<<>>, out, base + 2 * b, _clk) <=> (b % 2 = 0)
              /\ NumRising(<<>>, out, base + 1, base + WordLen, _clk) = 8

\* a word 0x00FF has been sent: its bits 9 and 10 are ones, and CLOCK rises
\* after bit 10 but not after bit 9
C15_Witness ==
    /\ _inited
    /\ call.op = "setBits"
    /\ ~_reverse
    /\ _led[0] = 255
    /\ Len(out) = FrameLen(WordsPerFrame)
    /\ out[WordLen + 17] = <<"write", _dat, 1>>
    /\ ~IsRising(<<>>, out, WordLen + 18, _clk)
    /\ IsRising(<<>>, out, WordLen + 20, _clk)

\* C16: in every flush the first clock pulse group of latch (CLOCK = 1, 0, 1,
\* 0 after DATA is driven low) changes the level of the CLOCK line 4 times,
\* given the level the last send16 of the frame left it at.
C16_LatchFourTransitions ==
    _inited =>
        LET p == Len(out) - LatchLen IN
        /\ p >= WordLen
        /\ out[p + 1] = <<"write", _dat, 0>>
        /\ NumTransitions(<<>>, out, p + 2, p + 5, _clk) = 4
\* C17: once init has been called, between operations the ten data words of
\* the most recently transmitted frame equal the current brightness slots
\* (low 8 bits) in the order of the current direction flag.
C17_FrameMatchesState ==
    _inited =>
        /\ IsFrameAt(out, FrameOffset, WordsPerFrame, _clk, _dat)
        /\ \A k \in 1 .. NumLeds :
              DataWords(Words(out))[k] =
                  _led[IF _reverse THEN NumLeds - k ELSE k - 1] % 256

\* one slot was changed by setLed in reversed direction and is on the wire
C17_Witness ==
    /\ _inited
    /\ call.op = "setLed"
    /\ call.arg[1] = 11
    /\ _reverse
    /\ _led[9] = 15
    /\ DataWords(Words(out))[1] = 15

\* C18: whenever the driver is Ready and no operation is in progress, the
\* last value written to the CLOCK pin is 0 and the last value written to
\* the DATA pin is 0.
C18_LinesLow ==
    _inited =>
        /\ LastLevel(out, Len(out), _clk, -1) = 0
        /\ LastLevel(out, Len(out), _dat, -1) = 0

\* a frame full of ones has been sent and both lines are low again
C18_Witness ==
    /\ _inited
    /\ call.op = "setLevel"
    /\ _led = AllOn
    /\ out[Len(out)] = <<"write", _clk, 0>>
    /\ \E j \in 1 .. Len(out) : out[j] = <<"write", _dat, 1>>

\* C19: setBits does not clamp its mask: for every integer mask, above 1023
\* and negative ones included, the state and the frame after setBits(mask)
\* are those of setBits(mask mod 1024).
C19_MaskModulo ==
    [][(_inited /\ call'.op = "setBits" /\ IsInt(call'.arg[1])) =>
        LET low == setBits(Cur, Num(call'.arg[1].n % 1024))
        IN  /\ low.s = Cur'
            /\ low.io = out'
            /\ LitMask(_led', 0) = call'.arg[1].n % 1024]_vars

\* setBits(-1019) has acted as setBits(5)
C19_Witness ==
    /\ _inited
    /\ call.op = "setBits"
    /\ call.arg[1] = Num(-1019)
    /\ _led = [i \in Slots |-> IF i \in {0, 2} THEN 255 ELSE 0]
====
